---- MODULE Spec2Model ----
(***************************************************************************)
(* Model of src/cuda/rank.cu: the host function calculate_rank and the     *)
(* kernels it launches.                                                    *)
(*                                                                         *)
(* A double is modelled as a record: [k |-> "num", v |-> n] stands for the *)
(* value n / Scale (binary fixed point, every operation rounded once to    *)
(* the nearest representable value), [k |-> "nan"] for NaN and             *)
(* [k |-> "inf", v |-> s] for the infinity of sign s.  Arrays are          *)
(* functions on 0 .. n-1, as indexed in the source.                        *)
(***************************************************************************)
EXTENDS Integers, Sequences, FiniteSets, TLC

\* ------------------------------------------------------------------------
\* Bounds of the model
\* ------------------------------------------------------------------------

\* number of fractional bits of the fixed-point model of double
FracBits == 10

\* cidsSize + linksSize of the graphs handed to calculate_rank
MaxSize == 4

\* the int counter `steps` saturates here (it is written, never read)
MaxSteps == 3

Scale == 2 ^ FracBits

\* const int CUDA_THREAD_BLOCK_SIZE = 256;
CUDA_THREAD_BLOCK_SIZE == 256

\* ------------------------------------------------------------------------
\* double arithmetic
\* ------------------------------------------------------------------------

Num(v) == [k |-> "num", v |-> v]
NaN == [k |-> "nan", v |-> 0]
Inf(s) == [k |-> "inf", v |-> s]

IsNaN(a) == a.k = "nan"
IsNum(a) == a.k = "num"

Sign(x) == IF x < 0 THEN -1 ELSE IF x > 0 THEN 1 ELSE 0

\* n / d rounded to the nearest integer, d > 0
RoundDiv(n, d) == (2 * n + d) \div (2 * d)

\* __ull2double_rn
ull2double_rn(n) == Num(n * Scale)

\* __ddiv_rn
Ddiv_rnValue(a, b) ==
    IF IsNaN(a) \/ IsNaN(b) THEN NaN
    ELSE IF a.k = "inf" THEN (IF b.k = "inf" THEN NaN
                              ELSE Inf(a.v * (IF b.v < 0 THEN -1 ELSE 1)))
    ELSE IF b.k = "inf" THEN Num(0)
    ELSE IF b.v = 0 THEN (IF a.v = 0 THEN NaN ELSE Inf(Sign(a.v)))
    ELSE IF b.v > 0 THEN Num(RoundDiv(a.v * Scale, b.v))
    ELSE Num(RoundDiv((-a.v) * Scale, -b.v))

\* Ddiv_rn with its operands evaluated once
Ddiv_rn(a0, b0) ==
    CHOOSE r \in { Ddiv_rnValue(a, b) : a \in {a0}, b \in {b0} } : TRUE

\* __dmul_rn, and the operator * on doubles
Dmul_rnValue(a, b) ==
    IF IsNaN(a) \/ IsNaN(b) THEN NaN
    ELSE IF a.k = "inf" \/ b.k = "inf"
         THEN (IF a.v = 0 \/ b.v = 0 THEN NaN ELSE Inf(Sign(a.v) * Sign(b.v)))
    ELSE Num(RoundDiv(a.v * b.v, Scale))

\* Dmul_rn with its operands evaluated once
Dmul_rn(a0, b0) ==
    CHOOSE r \in { Dmul_rnValue(a, b) : a \in {a0}, b \in {b0} } : TRUE

\* __dadd_rn, and the operator + on doubles
Dadd_rnValue(a, b) ==
    IF IsNaN(a) \/ IsNaN(b) THEN NaN
    ELSE IF a.k = "inf" THEN (IF b.k = "inf" /\ b.v # a.v THEN NaN ELSE a)
    ELSE IF b.k = "inf" THEN b
    ELSE Num(a.v + b.v)

\* Dadd_rn with its operands evaluated once
Dadd_rn(a0, b0) ==
    CHOOSE r \in { Dadd_rnValue(a, b) : a \in {a0}, b \in {b0} } : TRUE

\* unary minus on doubles
DnegValue(a) == IF IsNaN(a) THEN NaN ELSE [k |-> a.k, v |-> -a.v]

\* Dneg with its operands evaluated once
Dneg(a0) ==
    CHOOSE r \in { DnegValue(a) : a \in {a0} } : TRUE

\* the operator - on doubles
Dsub(a, b) == Dadd_rn(a, Dneg(b))

\* the operator < on doubles (false when either side is NaN)
DltValue(a, b) ==
    IF IsNaN(a) \/ IsNaN(b) THEN FALSE
    ELSE IF a.k = "inf" THEN (a.v < 0 /\ ~(b.k = "inf" /\ b.v < 0))
    ELSE IF b.k = "inf" THEN b.v > 0
    ELSE a.v < b.v

\* Dlt with its operands evaluated once
Dlt(a0, b0) ==
    CHOOSE r \in { DltValue(a, b) : a \in {a0}, b \in {b0} } : TRUE

\* the operator > on doubles
Dgt(a, b) == Dlt(b, a)

\* x scaled by powers of two into [Scale, 2*Scale): <<mantissa, exponent>>
\* (the operands of each round are evaluated once)
RECURSIVE Normalize(_, _)
Normalize(x0, e0) ==
    CHOOSE r \in { IF x < Scale THEN Normalize(2 * x, e - 1)
                   ELSE IF x >= 2 * Scale THEN Normalize(x \div 2, e + 1)
                   ELSE <<x, e>> : x \in {x0}, e \in {e0} } : TRUE

\* fractional bits of log2 of y / Scale in [1, 2), by repeated squaring
\* (the operands of each round are evaluated once)
RECURSIVE Log2Frac(_, _, _)
Log2Frac(y0, b, acc0) ==
    IF b > FracBits THEN acc0
    ELSE CHOOSE r \in { IF sq >= 2 * Scale
                        THEN Log2Frac(sq \div 2, b + 1, acc + Scale \div (2 ^ b))
                        ELSE Log2Frac(sq, b + 1, acc)
                        : sq \in {(y0 * y0) \div Scale}, acc \in {acc0} } : TRUE

\* log2 on doubles
log2Value(a) ==
    IF IsNaN(a) THEN NaN
    ELSE IF a.k = "inf" THEN (IF a.v > 0 THEN a ELSE NaN)
    ELSE IF a.v = 0 THEN Inf(-1)
    ELSE IF a.v < 0 THEN NaN
    ELSE LET n == Normalize(a.v, 0)
         IN  Num(n[2] * Scale + Log2Frac(n[1], 1, 0))

\* log2 with its operands evaluated once
log2(a0) ==
    CHOOSE r \in { log2Value(a) : a \in {a0} } : TRUE

\* struct absolute_value: x < 0.0 ? -x : x
absolute_valueValue(x) == IF Dlt(x, Num(0)) THEN Dneg(x) ELSE x

\* absolute_value with its operands evaluated once
absolute_value(x0) ==
    CHOOSE r \in { absolute_valueValue(x) : x \in {x0} } : TRUE

\* double ddiv_rn(uint64_t *a, uint64_t *b)
ddiv_rn(a, b) == Ddiv_rn(ull2double_rn(a), ull2double_rn(b))

\* n doubles, all d
Fill(n, d) == [i \in 0 .. n - 1 |-> d]

\* ------------------------------------------------------------------------
\* State
\* ------------------------------------------------------------------------

VARIABLES
    \* arguments of calculate_rank (read only)
    stakes, stakesSize, cidsSize, linksSize,
    inLinksCount, outLinksCount, outLinksIns,
    inLinksOuts, inLinksUsers, outLinksUsers,
    dampingFactor, tolerance,
    \* caller-allocated output buffers
    rank, entropy, light, karma,
    \* live allocations (malloc and cudaMalloc) and their contents, by the
    \* name of the pointer variable that received the allocation
    mem,
    \* the pointers double *d_rank, *d_prevRank (names of allocations)
    d_rank, d_prevRank,
    \* locals of calculate_rank
    compressedInLinksSize, defaultRank, defaultRankWithCorrection,
    steps, change,
    \* position in calculate_rank
    pc,
    \* reads of a buffer at an index outside its allocated length, as
    \* <<pointer variable, index>>
    outOfRange,
    \* one thread of getCompressedInLinks at one cid: the value of
    \* compressedInLinksStartIndex[i], the local compressedLinksIndex, the
    \* number of entries written so far and the index of the last write
    emitStart, emitIndex, emitted, emitAt

args == <<stakes, stakesSize, cidsSize, linksSize, inLinksCount, outLinksCount,
          outLinksIns, inLinksOuts, inLinksUsers, outLinksUsers,
          dampingFactor, tolerance>>
outputs == <<rank, entropy, light, karma>>
locals == <<compressedInLinksSize, defaultRank, defaultRankWithCorrection,
            steps, change>>
emit == <<emitStart, emitIndex, emitted, emitAt>>
vars == <<args, outputs, mem, d_rank, d_prevRank, locals, pc, outOfRange, emit>>

\* ------------------------------------------------------------------------
\* Inputs: graphs meeting the caller's preconditions
\* ------------------------------------------------------------------------

\* uint64_t *stakes, by user index
StakeVectors ==
    { [u \in 0 .. 0 |-> 1], [u \in 0 .. 0 |-> 10],
      [u \in 0 .. 1 |-> IF u = 0 THEN 3 ELSE 7],
      [u \in 0 .. 1 |-> IF u = 0 THEN 0 ELSE 7] }

\* <<dampingFactor, tolerance>> in units of 1 / Scale
ParamPairs ==
    { <<Scale \div 2, 4>>, <<RoundDiv(85 * Scale, 100), 4>>,
      <<0, 4>>, <<Scale \div 2, -1>> }

\* contents of the output buffers on entry, in units of 1 / Scale
OutputFill == {0, Scale}

\* a cyberlink: <<source cid, target cid, author>>
Links(C, U) == (0 .. C - 1) \X (0 .. C - 1) \X (0 .. U - 1)

\* order of the outbound view: by source, then target, then author
OutKey(e, C, U) == (e[1] * C + e[2]) * U + e[3]
\* order of the inbound view: by target, then source, then author
InKey(e, C, U) == (e[2] * C + e[1]) * U + e[3]

\* link lists of n links in outbound order
LinkLists(C, U, n) ==
    { s \in [1 .. n -> Links(C, U)] :
        \A i \in 1 .. n - 1 : OutKey(s[i], C, U) <= OutKey(s[i + 1], C, U) }

\* the same links in inbound order
InboundOrder(s, C, U) ==
    LET n == Len(s)
        pos(i) == Cardinality({ j \in 1 .. n :
                      \/ InKey(s[j], C, U) < InKey(s[i], C, U)
                      \/ InKey(s[j], C, U) = InKey(s[i], C, U) /\ j < i })
    IN  [p \in 1 .. n |-> s[CHOOSE i \in 1 .. n : pos(i) = p - 1]]

\* ------------------------------------------------------------------------
\* Allocations
\* ------------------------------------------------------------------------

\* A uint64_t is held as four 16-bit limbs, least significant first, and a
\* uint32_t as two: the values of the program exceed the integers of the
\* model checker, the limbs do not.
Limb == 2 ^ 16

\* the uint64_t of a small natural number
U64(n) == <<n % Limb, (n \div Limb) % Limb, 0, 0>>

\* uint32_t x = <uint64_t>: the low 32 bits
U32OfU64(x) == <<x[1], x[2]>>

\* a uint32_t used as an array index: promoted to 64 bits
U64OfU32(y) == <<y[1], y[2], 0, 0>>

\* x++ on a uint32_t (wraps at 2^32)
IncU32(y) ==
    IF y[1] + 1 < Limb THEN <<y[1] + 1, y[2]>>
    ELSE IF y[2] + 1 < Limb THEN <<0, y[2] + 1>>
    ELSE <<0, 0>>

\* x + 1 on a uint64_t (wraps at 2^64)
RECURSIVE IncLimbs(_, _)
IncLimbs(x, p) ==
    IF p > Len(x) THEN x
    ELSE IF x[p] + 1 < Limb THEN [x EXCEPT ![p] = x[p] + 1]
    ELSE IncLimbs([x EXCEPT ![p] = 0], p + 1)

\* x + k on a uint64_t, k a small natural number
RECURSIVE AddU64(_, _)
AddU64(x, k) == IF k = 0 THEN x ELSE AddU64(IncLimbs(x, 1), k - 1)

\* the array element a uint32_t index designates, for the indices that the
\* arrays of the model have
IndexOf(y) == y[1] + y[2] * Limb

\* malloc / cudaMalloc followed by the writes that fill the buffer
Alloc(m, name, contents) == (name :> contents) @@ m

\* free / cudaFree
Free(m, names) == LET live == m IN [x \in DOMAIN live \ names |-> live[x]]

\* ------------------------------------------------------------------------
\* Kernels and host helpers
\* ------------------------------------------------------------------------

\* int CUDA_BLOCKS_NUMBER = (cidsSize + CUDA_THREAD_BLOCK_SIZE - 1) / CUDA_THREAD_BLOCK_SIZE
CUDA_BLOCKS_NUMBER(n) == (n + CUDA_THREAD_BLOCK_SIZE - 1) \div CUDA_THREAD_BLOCK_SIZE

\* threads of a launch <<<CUDA_BLOCKS_NUMBER, CUDA_THREAD_BLOCK_SIZE>>>
GridThreads(n) == CUDA_BLOCKS_NUMBER(n) * CUDA_THREAD_BLOCK_SIZE

\* int index = blockIdx.x * blockDim.x + threadIdx.x, over the threads of a
\* launch <<<blocks, threads>>>
Workers(blocks, threads) == 0 .. blocks * threads - 1

\* uint64_t stride = blockDim.x * gridDim.x
Stride(blocks, threads) == threads * blocks

\* variant of the grid-stride loop in which every thread starts at element 0
GridStrideFromZero(index, stride, n) == { i \in 0 .. n - 1 : i % stride = 0 }

\* for (uint64_t i = index; i < cidsSize; i += stride): the elements one
\* thread visits
GridStride(index, stride, n) ==
    { i \in 0 .. n - 1 : i >= index /\ (i - index) % stride = 0 }

\* if (tx < size): the element one thread of mulArrays, sumArrays or
\* calculate_SI visits
Guarded(tx, size) == IF tx < size THEN {tx} ELSE {}

\* blocks of the launch calculateKarma<<<1,1>>>
KarmaBlocks == 1

\* threads per block of the launch calculateKarma<<<1,1>>>
KarmaBlockSize == 1

\* the loop of getLinksStartIndex
RECURSIVE getLinksStartIndexLoop(_, _, _, _, _)
getLinksStartIndexLoop(i, n, linksCount, index0, linksStartIndex) ==
    IF i >= n THEN [total |-> index0, start |-> linksStartIndex]
    ELSE CHOOSE r \in
             { getLinksStartIndexLoop(i + 1, n, linksCount, index + linksCount[i],
                                      [linksStartIndex EXCEPT ![i] = index])
               : index \in {index0} } : TRUE

\* variant of getLinksStartIndex that stores the index after adding the count
getLinksStartIndexInclusive(n, linksCount) ==
    [total |-> getLinksStartIndexLoop(0, n, linksCount, 0, [i \in 0 .. n - 1 |-> 0]).total,
     start |-> [i \in 0 .. n - 1 |->
                   getLinksStartIndexLoop(0, i + 1, linksCount, 0,
                                          [x \in 0 .. i |-> 0]).total]]

\* uint64_t getLinksStartIndex(cidsSize, linksCount, linksStartIndex)
getLinksStartIndex(n, linksCount) ==
    getLinksStartIndexLoop(0, n, linksCount, 0, [i \in 0 .. n - 1 |-> 0])

\* the inner loop of calculateCidTotalOutStake
RECURSIVE TotalStakeLoop(_, _, _, _, _)
TotalStakeLoop(j, end, stk, users, totalOutStake) ==
    IF j >= end THEN totalOutStake
    ELSE TotalStakeLoop(j + 1, end, stk, users, totalOutStake + stk[users[j]])

\* kernel calculateCidTotalOutStake
calculateCidTotalOutStake(n, stk, start, count, users) ==
    [i \in 0 .. n - 1 |-> TotalStakeLoop(start[i], start[i] + count[i], stk, users, 0)]

\* the inner loop of calculateCyberlinksLocalWeights
RECURSIVE LocalWeightsLoop(_, _, _, _, _, _)
LocalWeightsLoop(j, end, stk, users, oil, w) ==
    IF j >= end THEN w
    ELSE LocalWeightsLoop(j + 1, end, stk, users, oil,
                          [w EXCEPT ![j] = ddiv_rn(stk[users[j]], oil)])

\* the loop over cids of calculateCyberlinksLocalWeights
RECURSIVE LocalWeightsCids(_, _, _, _, _, _, _, _, _)
LocalWeightsCids(i, n, stk, start, count, users, totOut, totIn, w) ==
    IF i >= n THEN w
    ELSE LocalWeightsCids(i + 1, n, stk, start, count, users, totOut, totIn,
             LocalWeightsLoop(start[i], start[i] + count[i], stk, users,
                              totOut[i] + totIn[i], w))

\* variant of calculateCyberlinksLocalWeights that divides by the outbound
\* stake alone
calculateCyberlinksLocalWeightsOutOnly(n, stk, start, count, users, totOut, totIn, w) ==
    LocalWeightsCids(0, n, stk, start, count, users, totOut,
                     [i \in DOMAIN totIn |-> 0], w)

\* kernel calculateCyberlinksLocalWeights; w is the buffer on entry
calculateCyberlinksLocalWeights(n, stk, start, count, users, totOut, totIn, w) ==
    LocalWeightsCids(0, n, stk, start, count, users, totOut, totIn, w)

\* the inner loop of calculateNodeEntropy
RECURSIVE NodeEntropyLoop(_, _, _, _, _, _)
NodeEntropyLoop(j, end, stk, users, oil, nodeLinksEntropy) ==
    IF j >= end THEN nodeLinksEntropy
    ELSE LET weight == ddiv_rn(stk[users[j]], oil)
             logw == log2(weight)
         IN  NodeEntropyLoop(j + 1, end, stk, users, oil,
                             Dsub(nodeLinksEntropy, Dmul_rn(weight, logw)))

\* variant of calculateNodeEntropy that divides by the outbound stake alone
calculateNodeEntropyOutOnly(n, stk, start, count, users, totOut, totIn) ==
    [i \in 0 .. n - 1 |->
        NodeEntropyLoop(start[i], start[i] + count[i], stk, users,
                        totOut[i], Num(0))]

\* kernel calculateNodeEntropy
calculateNodeEntropy(n, stk, start, count, users, totOut, totIn) ==
    [i \in 0 .. n - 1 |->
        NodeEntropyLoop(start[i], start[i] + count[i], stk, users,
                        totOut[i] + totIn[i], Num(0))]

\* kernel mulArrays
mulArrays(size, in1, in2, output) ==
    [tx \in DOMAIN output |->
        IF tx < GridThreads(size) /\ tx < size
        THEN Dmul_rn(in1[tx], in2[tx]) ELSE output[tx]]

\* kernel sumArrays
sumArrays(size, in1, in2, output) ==
    [tx \in DOMAIN output |->
        IF tx < GridThreads(size) /\ tx < size
        THEN Dadd_rn(in1[tx], in2[tx]) ELSE output[tx]]

\* kernel calculate_SI
calculate_SI(size, out, in, d_si, damping) ==
    [tx \in DOMAIN d_si |->
        IF tx < GridThreads(size) /\ tx < size
        THEN Dadd_rn(Dmul_rn(damping, ull2double_rn(in[tx])),
                     Dmul_rn(Dsub(Num(Scale), damping), ull2double_rn(out[tx])))
        ELSE d_si[tx]]

\* the inner loop of calculate_QJ
RECURSIVE QJLoop(_, _, _, _, _, _)
QJLoop(j, end, links, si, damping, q) ==
    IF j >= end THEN q
    ELSE QJLoop(j + 1, end, links, si, damping,
                Dadd_rn(q, Dmul_rn(damping, si[links[j]])))

\* kernel calculate_QJ; qj is the buffer on entry
calculate_QJ(n, start, count, links, si, damping, qj) ==
    [i \in 0 .. n - 1 |->
        QJLoop(start[i], start[i] + count[i], links, si, damping, qj[i])]

\* the inner loop of calculate_ENT
RECURSIVE ENTLoop(_, _, _, _, _, _)
ENTLoop(j, end, links, s, qj, e) ==
    IF j >= end THEN e
    ELSE LET weight == Ddiv_rn(s, qj[links[j]])
             logw == log2(weight)
         IN  ENTLoop(j + 1, end, links, s, qj,
                     Dadd_rn(e, absolute_value(Dmul_rn(weight, logw))))

\* kernel calculate_ENT; ent is the buffer on entry
calculate_ENT(n, start, count, links, si, qj, ent) ==
    [i \in 0 .. n - 1 |->
        ENTLoop(start[i], start[i] + count[i], links, si[i], qj, ent[i])]

\* the inner loop of getCompressedInLinksCount
RECURSIVE CompressedCountLoop(_, _, _, _, _)
CompressedCountLoop(j, end, first, outs, compressedLinksCount) ==
    IF j >= end THEN compressedLinksCount
    ELSE CompressedCountLoop(j + 1, end, first, outs,
             IF j = first \/ outs[j] # outs[j - 1]
             THEN compressedLinksCount + 1 ELSE compressedLinksCount)

\* variant of getCompressedInLinksCount that counts every raw link
getCompressedInLinksCountRaw(n, start, count, outs) ==
    [i \in 0 .. n - 1 |-> count[i]]

\* kernel getCompressedInLinksCount
getCompressedInLinksCount(n, start, count, outs) ==
    [i \in 0 .. n - 1 |->
        IF count[i] = 0 THEN 0
        ELSE CompressedCountLoop(start[i], start[i] + count[i], start[i], outs, 0)]

\* struct CompressedInLink {fromIndex, weight}
CompressedInLink(fromIndex, weight) == [fromIndex |-> fromIndex, weight |-> weight]

\* the inner loop of getCompressedInLinks over the links of one cid
RECURSIVE CompressedLinksLoop(_, _, _, _, _, _, _, _, _)
CompressedLinksLoop(j, lastLinkIndex, outs, users, stk, totOut, compressedLinksIndex, compressedLinkStake, links) ==
    IF j >= lastLinkIndex + 1 THEN links
    ELSE LET stake == compressedLinkStake + stk[users[j]]
         IN  IF j = lastLinkIndex \/ outs[j] # outs[j + 1]
             THEN LET oppositeCid == outs[j]
                      weight == ddiv_rn(stake, totOut[oppositeCid])
                  IN  CompressedLinksLoop(j + 1, lastLinkIndex, outs, users, stk, totOut,
                          IncU32(compressedLinksIndex), 0,
                          [links EXCEPT ![IndexOf(compressedLinksIndex)] =
                               CompressedInLink(oppositeCid, weight)])
             ELSE CompressedLinksLoop(j + 1, lastLinkIndex, outs, users, stk, totOut,
                          compressedLinksIndex, stake, links)

\* the body of the loop over cids of getCompressedInLinks
CompressedLinksOfCid(i, start, count, totOut, outs, users, stk, compStart, links) ==
    IF count[i] = 0 THEN links
    ELSE LET compressedLinksIndex == U32OfU64(U64(compStart[i]))
         IN  IF count[i] = 1
             THEN LET oppositeCid == outs[start[i]]
                      compressedLinkStake == stk[users[start[i]]]
                      weight == ddiv_rn(compressedLinkStake, totOut[oppositeCid])
                  IN  [links EXCEPT ![IndexOf(compressedLinksIndex)] =
                           CompressedInLink(oppositeCid, weight)]
             ELSE CompressedLinksLoop(start[i], start[i] + count[i] - 1, outs, users,
                                      stk, totOut, compressedLinksIndex, 0, links)

\* the loop over cids of getCompressedInLinks
RECURSIVE CompressedLinksCids(_, _, _, _, _, _, _, _, _, _)
CompressedLinksCids(i, n, start, count, totOut, outs, users, stk, compStart, links) ==
    IF i >= n THEN links
    ELSE CompressedLinksCids(i + 1, n, start, count, totOut, outs, users, stk, compStart,
             CompressedLinksOfCid(i, start, count, totOut, outs, users, stk,
                                  compStart, links))

\* kernel getCompressedInLinks; links is the buffer on entry
getCompressedInLinks(n, start, count, totOut, outs, users, stk, compStart, links) ==
    CompressedLinksCids(0, n, start, count, totOut, outs, users, stk, compStart, links)

\* the inner loop of run_rank_iteration
RECURSIVE RankSumLoop(_, _, _, _, _)
RankSumLoop(j, end, inLinks, prevRank, ksum) ==
    IF j >= end THEN ksum
    ELSE RankSumLoop(j + 1, end, inLinks, prevRank,
             Dadd_rn(Dmul_rn(prevRank[inLinks[j].fromIndex], inLinks[j].weight), ksum))

\* variant of the update of rank[i] that gives a cid without inbound links
\* the corrected default
RankOfCidCorrected(i, inLinks, prevRank, rnk, start, count, drwc, damping) ==
    Dadd_rn(Dmul_rn(RankSumLoop(start[i], start[i] + count[i], inLinks,
                                prevRank, Num(0)),
                    damping),
            drwc)

\* what run_rank_iteration does to rank[i]
RankOfCid(i, inLinks, prevRank, rnk, start, count, drwc, damping) ==
    IF count[i] = 0 THEN rnk[i]
    ELSE Dadd_rn(Dmul_rn(RankSumLoop(start[i], start[i] + count[i], inLinks,
                                     prevRank, Num(0)),
                         damping),
                 drwc)

\* kernel run_rank_iteration; rnk is the buffer on entry
run_rank_iteration(inLinks, prevRank, rnk, rankSize, start, count, drwc, damping) ==
    [i \in 0 .. rankSize - 1 |->
        RankOfCid(i, inLinks, prevRank, rnk, start, count, drwc, damping)]

\* thrust::maximum<double>: lhs < rhs ? rhs : lhs, over a set without NaN
MaxDouble(S0) == CHOOSE r \in { CHOOSE x \in S : \A y \in S : ~Dlt(x, y) : S \in {S0} } : TRUE

\* variant of find_max_ranks_diff that reduces the signed differences
find_max_ranks_diffSigned(prevRank, newRank, rankSize) ==
    LET ranksDiff == [i \in 0 .. rankSize - 1 |-> Dsub(prevRank[i], newRank[i])]
        nums == { i \in 0 .. rankSize - 1 : ~IsNaN(ranksDiff[i]) }
    IN  IF nums = 0 .. rankSize - 1
        THEN { MaxDouble({ ranksDiff[i] : i \in nums } \cup {Num(0)}) }
        ELSE {NaN} \cup
             { MaxDouble({ ranksDiff[i] : i \in T } \cup {Num(0)}) : T \in SUBSET nums }

\* double find_max_ranks_diff(prevRank, newRank, rankSize): the values the
\* reduction can return.  thrust::maximum is neither commutative nor
\* associative on NaN (a NaN on the left absorbs the right operand, a NaN on
\* the right is dropped), so with a NaN among the differences the result
\* depends on the order of the reduction.
find_max_ranks_diff(prevRank, newRank, rankSize) ==
    LET ranksDiff == [i \in 0 .. rankSize - 1 |-> Dsub(prevRank[i], newRank[i])]
        absd == [i \in 0 .. rankSize - 1 |-> absolute_value(ranksDiff[i])]
        nums == { i \in 0 .. rankSize - 1 : ~IsNaN(absd[i]) }
    IN  IF nums = 0 .. rankSize - 1
        THEN { MaxDouble({ absd[i] : i \in nums } \cup {Num(0)}) }
        ELSE {NaN} \cup
             { MaxDouble({ absd[i] : i \in T } \cup {Num(0)}) : T \in SUBSET nums }

\* the inner loop of calculateKarma
RECURSIVE KarmaLoop(_, _, _, _, _, _)
KarmaLoop(j, end, users, w, lightOfCid, k0) ==
    IF j >= end THEN k0
    ELSE CHOOSE r \in
             { KarmaLoop(j + 1, end, users, w, lightOfCid,
                   [k EXCEPT ![users[j]] = Dadd_rn(k[users[j]], Dmul_rn(lightOfCid, w[j]))])
               : k \in {k0} } : TRUE

\* the loop over cids of calculateKarma
RECURSIVE KarmaCids(_, _, _, _, _, _, _, _)
KarmaCids(i, n, start, count, users, w, lght, k) ==
    IF i >= n THEN k
    ELSE KarmaCids(i + 1, n, start, count, users, w, lght,
             KarmaLoop(start[i], start[i] + count[i], users, w, lght[i], k))

\* kernel calculateKarma; k is the buffer on entry
calculateKarma(n, start, count, users, w, lght, k) ==
    KarmaCids(0, n, start, count, users, w, lght, k)

\* variant of swap that leaves both pointers as they are
swapNone(a, b) == <<a, b>>

\* void swap(double* &a, double* &b)
swap(a, b) == <<b, a>>

\* Elements of the output array that one thread writes, per kernel; cids is
\* the set of elements the thread visits.

\* totalOutStake[i], entropy[i], qj[i], ent[i], compressedInLinksCount[i]
NodeWrites(cids) == cids

\* rank[i], skipped for a cid without inbound links (lines 32-34, 41)
RankWrites(cids, count) == { i \in cids : count[i] # 0 }

\* cyberlinksLocalWeights[j] over the outbound links of the cid (lines 131-133)
LocalWeightWrites(cids, start, count) ==
    UNION { start[i] .. start[i] + count[i] - 1 : i \in cids }

\* compressedInLinks[compressedLinksIndex] (lines 336, 348): the elements that
\* getCompressedInLinks changes for one cid in an array of marked elements
EmitWrites(cids, start, count, totOut, outs, users, stk, compStart, size) ==
    LET blank == [k \in 0 .. size - 1 |-> CompressedInLink(-1, NaN)]
    IN  UNION { { k \in DOMAIN blank :
                    CompressedLinksOfCid(i, start, count, totOut, outs, users, stk,
                                         compStart, blank)[k] # blank[k] }
                : i \in cids }

\* karma[users[j]] over every link (lines 365-368): the loop of calculateKarma
\* does not depend on the thread
KarmaWrites(n, start, count, users) ==
    { users[j] : j \in UNION { start[i] .. start[i] + count[i] - 1 : i \in 0 .. n - 1 } }

\* ------------------------------------------------------------------------
\* calculate_rank
\* ------------------------------------------------------------------------

\* number of elements the loops "for(uint64_t i = 0; i < 21; i++)" print
PrintCount == 21

\* for(uint64_t i = 0; i < 21; i++) printf(..., (double)*(SI+i)): the reads
\* at an index that the buffer of cidsSize elements does not have
PrintedOutOfRange(name, buffer) ==
    { <<name, i>> : i \in { i \in 0 .. PrintCount - 1 : i \notin DOMAIN buffer } }

\* before the call: no arguments yet, nothing allocated
NotCalled ==
    /\ stakes = << >>
    /\ stakesSize = 0
    /\ cidsSize = 0
    /\ linksSize = 0
    /\ outLinksCount = << >>
    /\ outLinksIns = << >>
    /\ outLinksUsers = << >>
    /\ inLinksCount = << >>
    /\ inLinksOuts = << >>
    /\ inLinksUsers = << >>
    /\ dampingFactor = Num(0)
    /\ tolerance = Num(0)
    /\ rank = << >>
    /\ entropy = << >>
    /\ light = << >>
    /\ karma = << >>
    /\ mem = [x \in {} |-> << >>]
    /\ d_rank = "null"
    /\ d_prevRank = "null"
    /\ compressedInLinksSize = 0
    /\ defaultRank = Num(0)
    /\ defaultRankWithCorrection = Num(0)
    /\ steps = 0
    /\ change = Num(0)
    /\ pc = "idle"
    /\ outOfRange = {}

\* before the call; no thread of getCompressedInLinks is running
Init ==
    /\ NotCalled
    /\ emitStart = U64(0)
    /\ emitIndex = U32OfU64(emitStart)
    /\ emitted = 0
    /\ emitAt = "none"

\* the caller enters calculate_rank with a graph in both CSR views, the
\* inbound slices sorted by source, and its four output buffers (lines 407-420)
Call ==
    /\ pc = "idle"
    /\ \E sv \in StakeVectors, C \in 1 .. MaxSize, p \in ParamPairs, g \in OutputFill :
       \E n \in 0 .. MaxSize - C :
       \E s \in LinkLists(C, Cardinality(DOMAIN sv), n) :
         LET U == Cardinality(DOMAIN sv)
             t == InboundOrder(s, C, U)
         IN  /\ stakes' = sv
             /\ stakesSize' = U
             /\ cidsSize' = C
             /\ linksSize' = n
             /\ outLinksCount' = [c \in 0 .. C - 1 |->
                                    Cardinality({ e \in 1 .. n : s[e][1] = c })]
             /\ outLinksIns' = [e \in 0 .. n - 1 |-> s[e + 1][2]]
             /\ outLinksUsers' = [e \in 0 .. n - 1 |-> s[e + 1][3]]
             /\ inLinksCount' = [c \in 0 .. C - 1 |->
                                   Cardinality({ e \in 1 .. n : t[e][2] = c })]
             /\ inLinksOuts' = [e \in 0 .. n - 1 |-> t[e + 1][1]]
             /\ inLinksUsers' = [e \in 0 .. n - 1 |-> t[e + 1][3]]
             /\ dampingFactor' = Num(p[1])
             /\ tolerance' = Num(p[2])
             /\ rank' = Fill(C, Num(g))
             /\ entropy' = Fill(C, Num(g))
             /\ light' = Fill(C, Num(g))
             /\ karma' = Fill(U, Num(g))
    /\ pc' = "STEP0"
    /\ UNCHANGED <<emit, outOfRange, mem, d_rank, d_prevRank, locals>>

\* STEP0: Calculate compressed in links start indexes (lines 435-438)
Step0 ==
    /\ pc = "STEP0"
    /\ mem' = Alloc(Alloc(mem,
                "inLinksStartIndex", getLinksStartIndex(cidsSize, inLinksCount).start),
                "outLinksStartIndex", getLinksStartIndex(cidsSize, outLinksCount).start)
    /\ pc' = "STEP1"
    /\ UNCHANGED <<emit, outOfRange, args, outputs, d_rank, d_prevRank, locals>>

\* STEP1: Calculate for each cid total stake by out links (lines 446-466)
Step1 ==
    /\ pc = "STEP1"
    /\ LET d_outLinksStartIndex == mem["outLinksStartIndex"]
           d_outLinksCount == outLinksCount
           d_outLinksUsers == outLinksUsers
           d_stakes == stakes
           d_cidsTotalOutStakes ==
               calculateCidTotalOutStake(cidsSize, d_stakes, d_outLinksStartIndex,
                                         d_outLinksCount, d_outLinksUsers)
       IN  mem' = Alloc(Alloc(Alloc(Alloc(Alloc(mem,
                      "d_outLinksStartIndex", d_outLinksStartIndex),
                      "d_outLinksCount", d_outLinksCount),
                      "d_outLinksUsers", d_outLinksUsers),
                      "d_stakes", d_stakes),
                      "d_cidsTotalOutStakes", d_cidsTotalOutStakes)
    /\ pc' = "IN_STAKE"
    /\ UNCHANGED <<emit, outOfRange, args, outputs, d_rank, d_prevRank, locals>>

\* DEV ENTROPY - IN STAKE (lines 474-491)
InStake ==
    /\ pc = "IN_STAKE"
    /\ LET d_inLinksStartIndex0 == mem["inLinksStartIndex"]
           d_inLinksCount0 == inLinksCount
           d_inLinksUsers0 == inLinksUsers
           d_cidsTotalInStakes ==
               calculateCidTotalOutStake(cidsSize, mem["d_stakes"], d_inLinksStartIndex0,
                                         d_inLinksCount0, d_inLinksUsers0)
       IN  mem' = Alloc(Alloc(Alloc(Alloc(mem,
                      "d_inLinksStartIndex0", d_inLinksStartIndex0),
                      "d_inLinksCount0", d_inLinksCount0),
                      "d_inLinksUsers0", d_inLinksUsers0),
                      "d_cidsTotalInStakes", d_cidsTotalInStakes)
    /\ pc' = "SI"
    /\ UNCHANGED <<emit, outOfRange, args, outputs, d_rank, d_prevRank, locals>>

\* d_si (lines 505-510)
StageSI ==
    /\ pc = "SI"
    /\ mem' = Alloc(mem, "d_si",
                  calculate_SI(cidsSize, mem["d_cidsTotalOutStakes"],
                               mem["d_cidsTotalInStakes"], entropy, dampingFactor))
    /\ outOfRange' = outOfRange \cup PrintedOutOfRange("d_si", mem'["d_si"])
    /\ pc' = "ENTROPY"
    /\ UNCHANGED <<emit, args, outputs, d_rank, d_prevRank, locals>>

\* DEV ENTROPY - ENTROPY OUT, ENTROPY IN, SUM ENTROPY (lines 516-564);
\* d_entropy_out and d_entropy_in are allocated and freed within the stage
StageEntropy ==
    /\ pc = "ENTROPY"
    /\ \E d_entropy_out \in
               { calculateNodeEntropy(cidsSize, mem["d_stakes"],
                   mem["d_outLinksStartIndex"], mem["d_outLinksCount"],
                   mem["d_outLinksUsers"], mem["d_cidsTotalOutStakes"],
                   mem["d_cidsTotalInStakes"]) },
          d_entropy_in \in
               { calculateNodeEntropy(cidsSize, mem["d_stakes"],
                   mem["d_inLinksStartIndex0"], mem["d_inLinksCount0"],
                   mem["d_inLinksUsers0"], mem["d_cidsTotalOutStakes"],
                   mem["d_cidsTotalInStakes"]) } :
       \E d_entropy \in { sumArrays(cidsSize, d_entropy_out, d_entropy_in, entropy) } :
           mem' = Free(Alloc(Alloc(Alloc(mem,
                          "d_entropy_out", d_entropy_out),
                          "d_entropy_in", d_entropy_in),
                          "d_entropy", d_entropy),
                       {"d_entropy_out", "d_entropy_in"})
    /\ pc' = "LOCAL_WEIGHTS"
    /\ UNCHANGED <<emit, outOfRange, args, outputs, d_rank, d_prevRank, locals>>

\* LOCAL WEIGHTS (lines 571-577)
StageLocalWeights ==
    /\ pc = "LOCAL_WEIGHTS"
    /\ mem' = Alloc(mem, "d_cyberlinksLocalWeights",
                  calculateCyberlinksLocalWeights(cidsSize, mem["d_stakes"],
                      mem["d_outLinksStartIndex"], mem["d_outLinksCount"],
                      mem["d_outLinksUsers"], mem["d_cidsTotalOutStakes"],
                      mem["d_cidsTotalInStakes"], Fill(linksSize, Num(0))))
    /\ pc' = "STEP2"
    /\ UNCHANGED <<emit, outOfRange, args, outputs, d_rank, d_prevRank, locals>>

\* STEP2: Calculate compressed in links count (lines 593-610)
Step2 ==
    /\ pc = "STEP2"
    /\ LET d_inLinksStartIndex == mem["inLinksStartIndex"]
           d_inLinksCount == inLinksCount
           d_inLinksOuts == inLinksOuts
           d_compressedInLinksCount ==
               getCompressedInLinksCount(cidsSize, d_inLinksStartIndex,
                                         d_inLinksCount, d_inLinksOuts)
       IN  mem' = Alloc(Alloc(Alloc(Alloc(mem,
                      "d_inLinksStartIndex", d_inLinksStartIndex),
                      "d_inLinksCount", d_inLinksCount),
                      "d_inLinksOuts", d_inLinksOuts),
                      "d_compressedInLinksCount", d_compressedInLinksCount)
    /\ pc' = "QJ"
    /\ UNCHANGED <<emit, outOfRange, args, outputs, d_rank, d_prevRank, locals>>

\* d_qj_in, d_qj_out, d_qj_sum, d_ent_chi (lines 616-688); all but
\* d_outLinksIns are freed within the stage, and d_si with them
StageQJ ==
    /\ pc = "QJ"
    /\ LET f08 == Num(RoundDiv(8 * Scale, 10))
           f02 == Num(RoundDiv(2 * Scale, 10))
           d_outLinksIns == outLinksIns
       IN  \E d_qj_in \in
               { calculate_QJ(cidsSize, mem["d_inLinksStartIndex"],
                   mem["d_inLinksCount"], mem["d_inLinksOuts"], mem["d_si"],
                   f08, Fill(cidsSize, Num(0))) },
              d_qj_out \in
               { calculate_QJ(cidsSize, mem["d_outLinksStartIndex"],
                   mem["d_outLinksCount"], d_outLinksIns, mem["d_si"],
                   f02, Fill(cidsSize, Num(0))) } :
           \E d_qj_sum \in { sumArrays(cidsSize, d_qj_out, d_qj_in, entropy) } :
           \E ent1 \in
               { calculate_ENT(cidsSize, mem["d_inLinksStartIndex"],
                   mem["d_inLinksCount"], mem["d_inLinksOuts"], mem["d_si"],
                   d_qj_sum, Fill(cidsSize, Num(0))) } :
           \E d_ent_chi \in
               { calculate_ENT(cidsSize, mem["d_outLinksStartIndex"],
                   mem["d_outLinksCount"], d_outLinksIns, mem["d_si"],
                   d_qj_sum, ent1) } :
           /\ mem' = Free(Alloc(Alloc(Alloc(Alloc(Alloc(mem,
                             "d_qj_in", d_qj_in),
                             "d_outLinksIns", d_outLinksIns),
                             "d_qj_out", d_qj_out),
                             "d_qj_sum", d_qj_sum),
                             "d_ent_chi", d_ent_chi),
                          {"d_si", "d_qj_in", "d_qj_out", "d_qj_sum", "d_ent_chi"})
           /\ outOfRange' = outOfRange
                  \cup PrintedOutOfRange("d_qj_in", d_qj_in)
                  \cup PrintedOutOfRange("d_qj_out", d_qj_out)
                  \cup PrintedOutOfRange("d_qj_sum", d_qj_sum)
                  \cup PrintedOutOfRange("d_ent_chi", d_ent_chi)
    /\ pc' = "STEP3"
    /\ UNCHANGED <<emit, args, outputs, d_rank, d_prevRank, locals>>

\* STEP3: Calculate compressed in links start indexes (lines 695-707);
\* the host array compressedInLinksStartIndex is freed within the stage
Step3 ==
    /\ pc = "STEP3"
    /\ \E compressedInLinksCount \in { mem["d_compressedInLinksCount"] } :
       \E r \in { getLinksStartIndex(cidsSize, compressedInLinksCount) } :
       LET compressedInLinksStartIndex == r.start
       IN  /\ mem' = Free(Alloc(Alloc(Alloc(mem,
                             "compressedInLinksCount", compressedInLinksCount),
                             "compressedInLinksStartIndex", compressedInLinksStartIndex),
                             "d_compressedInLinksStartIndex", compressedInLinksStartIndex),
                          {"compressedInLinksStartIndex"})
           /\ compressedInLinksSize' = r.total
    /\ pc' = "STEP4"
    /\ UNCHANGED <<emit, outOfRange, args, outputs, d_rank, d_prevRank, defaultRank,
                   defaultRankWithCorrection, steps, change>>

\* STEP4: Calculate compressed in links (lines 716-737)
Step4 ==
    /\ pc = "STEP4"
    /\ LET d_inLinksUsers == inLinksUsers
           d_compressedInLinks ==
               getCompressedInLinks(cidsSize, mem["d_inLinksStartIndex"],
                   mem["d_inLinksCount"], mem["d_cidsTotalOutStakes"],
                   mem["d_inLinksOuts"], d_inLinksUsers, mem["d_stakes"],
                   mem["d_compressedInLinksStartIndex"],
                   [k \in 0 .. compressedInLinksSize - 1 |->
                       CompressedInLink(0, Num(0))])
       IN  mem' = Free(Alloc(Alloc(mem,
                          "d_inLinksUsers", d_inLinksUsers),
                          "d_compressedInLinks", d_compressedInLinks),
                       {"d_inLinksUsers", "d_inLinksStartIndex", "d_inLinksCount",
                        "d_inLinksOuts", "d_stakes", "d_cidsTotalOutStakes",
                        "d_cidsTotalInStakes"})
    /\ pc' = "STEP5"
    /\ UNCHANGED <<emit, outOfRange, args, outputs, d_rank, d_prevRank, locals>>

\* number of cids i < n with inLinksCount[i] == 0
danglingNodesSize(n, count) == Cardinality({ i \in 0 .. n - 1 : count[i] = 0 })

\* STEP5: Calculate dangling nodes rank, and default rank (lines 748-758)
Step5 ==
    /\ pc = "STEP5"
    /\ LET dr == Ddiv_rn(Dsub(Num(Scale), dampingFactor), ull2double_rn(cidsSize))
           innerProductOverSize ==
               Dmul_rn(dr, Ddiv_rn(ull2double_rn(danglingNodesSize(cidsSize, inLinksCount)),
                                   ull2double_rn(cidsSize)))
       IN  /\ defaultRank' = dr
           /\ rank' = Fill(cidsSize, dr)
           /\ defaultRankWithCorrection' =
                  Dadd_rn(Dmul_rn(dampingFactor, innerProductOverSize), dr)
    /\ pc' = "STEP6"
    /\ UNCHANGED <<emit, outOfRange, args, entropy, light, karma, mem, d_rank, d_prevRank,
                   compressedInLinksSize, steps, change>>

\* STEP6: Calculate Rank, up to the loop (lines 770-779)
Step6 ==
    /\ pc = "STEP6"
    /\ mem' = Alloc(Alloc(mem, "d_rank", rank), "d_prevRank", rank)
    /\ d_rank' = "d_rank"
    /\ d_prevRank' = "d_prevRank"
    /\ steps' = 0
    /\ change' = Dadd_rn(tolerance, Num(Scale))
    /\ pc' = "LOOP"
    /\ UNCHANGED <<emit, outOfRange, args, outputs, compressedInLinksSize, defaultRank,
                   defaultRankWithCorrection>>

\* one pass of while(change > tolerance) (lines 780-791)
Iterate ==
    /\ pc = "LOOP"
    /\ Dgt(change, tolerance)
    /\ \E sw \in { swap(d_rank, d_prevRank) } :
       \E new \in
           { run_rank_iteration(mem["d_compressedInLinks"], mem[sw[2]],
                 mem[sw[1]], cidsSize, mem["d_compressedInLinksStartIndex"],
                 mem["d_compressedInLinksCount"], defaultRankWithCorrection,
                 dampingFactor) } :
           /\ d_rank' = sw[1]
           /\ d_prevRank' = sw[2]
           /\ mem' = [mem EXCEPT ![sw[1]] = new]
           /\ change' \in find_max_ranks_diff(mem[sw[2]], new, cidsSize)
    /\ steps' = IF steps < MaxSteps THEN steps + 1 ELSE steps
    /\ pc' = "LOOP"
    /\ UNCHANGED <<emit, outOfRange, args, outputs, compressedInLinksSize, defaultRank,
                   defaultRankWithCorrection>>

\* the loop ends; cudaMemcpy(rank, d_rank, ...) (lines 780, 793)
ExitLoop ==
    /\ pc = "LOOP"
    /\ ~Dgt(change, tolerance)
    /\ rank' = mem[d_rank]
    /\ pc' = "STEP7"
    /\ UNCHANGED <<emit, outOfRange, args, entropy, light, karma, mem, d_rank, d_prevRank, locals>>

\* STEP7: Calculate Light (lines 799-812)
Step7 ==
    /\ pc = "STEP7"
    /\ \E d_light \in { mulArrays(cidsSize, mem[d_rank], mem["d_entropy"], light) } :
           /\ light' = d_light
           /\ mem' = Free(Alloc(mem, "d_light", d_light),
                          {"d_entropy", d_rank, d_prevRank,
                           "d_compressedInLinksStartIndex",
                           "d_compressedInLinksCount", "d_compressedInLinks"})
    /\ pc' = "STEP8"
    /\ UNCHANGED <<emit, outOfRange, args, rank, entropy, karma, d_rank, d_prevRank, locals>>

\* STEP8: Calculate Karma (lines 818-830)
Step8 ==
    /\ pc = "STEP8"
    /\ \E d_karma \in
           { calculateKarma(cidsSize, mem["d_outLinksStartIndex"],
                 mem["d_outLinksCount"], mem["d_outLinksUsers"],
                 mem["d_cyberlinksLocalWeights"], mem["d_light"], karma) } :
           /\ karma' = d_karma
           /\ mem' = Alloc(mem, "d_karma", d_karma)
    /\ pc' = "STEP9"
    /\ UNCHANGED <<emit, outOfRange, args, rank, entropy, light, d_rank, d_prevRank, locals>>

\* STEP9: Cleaning, and return (lines 835-845)
Step9 ==
    /\ pc = "STEP9"
    /\ mem' = Free(mem, {"d_outLinksStartIndex", "d_outLinksCount", "d_outLinksUsers",
                         "d_light", "d_karma", "d_cyberlinksLocalWeights"})
    /\ pc' = "done"
    /\ UNCHANGED <<emit, outOfRange, args, outputs, d_rank, d_prevRank, locals>>

\* the buffers of earlier stages that the stage at position p reads, writes
\* or frees
Accessed(p) ==
    CASE p = "STEP1" -> {"outLinksStartIndex"}
      [] p = "IN_STAKE" -> {"d_stakes", "inLinksStartIndex"}
      [] p = "SI" -> {"d_cidsTotalOutStakes", "d_cidsTotalInStakes"}
      [] p = "ENTROPY" ->
            {"d_stakes", "d_outLinksStartIndex", "d_outLinksCount", "d_outLinksUsers",
             "d_inLinksStartIndex0", "d_inLinksCount0", "d_inLinksUsers0",
             "d_cidsTotalOutStakes", "d_cidsTotalInStakes"}
      [] p = "LOCAL_WEIGHTS" ->
            {"d_stakes", "d_outLinksStartIndex", "d_outLinksCount", "d_outLinksUsers",
             "d_cidsTotalOutStakes", "d_cidsTotalInStakes"}
      [] p = "STEP2" -> {"inLinksStartIndex"}
      [] p = "QJ" ->
            {"d_inLinksStartIndex", "d_inLinksCount", "d_inLinksOuts",
             "d_outLinksStartIndex", "d_outLinksCount", "d_si"}
      [] p = "STEP3" -> {"d_compressedInLinksCount"}
      [] p = "STEP4" ->
            {"d_inLinksStartIndex", "d_inLinksCount", "d_inLinksOuts", "d_stakes",
             "d_cidsTotalOutStakes", "d_cidsTotalInStakes",
             "d_compressedInLinksStartIndex", "d_compressedInLinksCount"}
      [] p = "LOOP" ->
            {"d_compressedInLinks", "d_compressedInLinksStartIndex",
             "d_compressedInLinksCount", d_rank, d_prevRank}
      [] p = "STEP7" ->
            {"d_entropy", "d_compressedInLinks", "d_compressedInLinksStartIndex",
             "d_compressedInLinksCount", d_rank, d_prevRank}
      [] p = "STEP8" ->
            {"d_outLinksStartIndex", "d_outLinksCount", "d_outLinksUsers",
             "d_cyberlinksLocalWeights", "d_light"}
      [] p = "STEP9" ->
            {"d_outLinksStartIndex", "d_outLinksCount", "d_outLinksUsers",
             "d_cyberlinksLocalWeights", "d_light", "d_karma"}
      [] OTHER -> {}

\* the steps of calculate_rank
Run ==
    \/ Step0 \/ Step1 \/ InStake \/ StageSI \/ StageEntropy \/ StageLocalWeights
    \/ Step2 \/ StageQJ \/ Step3 \/ Step4 \/ Step5 \/ Step6
    \/ Iterate \/ ExitLoop \/ Step7 \/ Step8 \/ Step9

Next == Call \/ Run

Spec == Init /\ [][Next]_vars

\* ------------------------------------------------------------------------
\* The write index of getCompressedInLinks, over 64-bit start indices
\* ------------------------------------------------------------------------

\* largest number of compressed links one thread emits for a cid
MaxEmit == 2

\* values of compressedInLinksStartIndex[i]: every limb is 0, 1 or 2^16 - 1
EmitStarts == [1 .. 4 -> {0, 1, Limb - 1}]

\* uint32_t compressedLinksIndex = compressedInLinksStartIndex[i] (line 330)
EmitInit ==
    /\ NotCalled
    /\ emitStart \in EmitStarts
    /\ emitIndex = U32OfU64(emitStart)
    /\ emitted = 0
    /\ emitAt = "none"

\* compressedInLinks[compressedLinksIndex] = ...; compressedLinksIndex++
\* (lines 348-349; line 336 for a cid with one inbound link)
EmitWrite ==
    /\ emitted < MaxEmit
    /\ emitAt' = U64OfU32(emitIndex)
    /\ emitIndex' = IncU32(emitIndex)
    /\ emitted' = emitted + 1
    /\ UNCHANGED <<emitStart, outOfRange, args, outputs, mem, d_rank, d_prevRank,
                   locals, pc>>

EmitSpec == EmitInit /\ [][EmitWrite]_vars

\* once called, the host thread runs calculate_rank on: no step of it waits
\* for anything (kernel launches and cudaDeviceSynchronize complete)
LiveSpec == Spec /\ WF_vars(Run)

\* ------------------------------------------------------------------------
\* Quantities of the specification, stated on the arguments
\* ------------------------------------------------------------------------

Cids == 0 .. cidsSize - 1
Users == 0 .. stakesSize - 1

RECURSIVE SumFn(_, _)
SumFn(S, f) ==
    IF S = {} THEN 0
    ELSE LET x == CHOOSE y \in S : TRUE IN f[x] + SumFn(S \ {x}, f)

\* the slices of the CSR views
OutSlice(c) ==
    LET first == SumFn(0 .. c - 1, outLinksCount)
    IN  first .. first + outLinksCount[c] - 1
InSlice(c) ==
    LET first == SumFn(0 .. c - 1, inLinksCount)
    IN  first .. first + inLinksCount[c] - 1

TotalOutStake(c) == SumFn(OutSlice(c), [e \in OutSlice(c) |-> stakes[outLinksUsers[e]]])
TotalInStake(c) == SumFn(InSlice(c), [e \in InSlice(c) |-> stakes[inLinksUsers[e]]])
Oil(c) == TotalOutStake(c) + TotalInStake(c)

\* 0 < dampingFactor < 1 and tolerance > 0
ValidParams ==
    /\ Dlt(Num(0), dampingFactor)
    /\ Dlt(dampingFactor, Num(Scale))
    /\ Dgt(tolerance, Num(0))

\* the sum of an array of doubles, in index order
RECURSIVE SumDoubles(_, _, _)
SumDoubles(a, i, acc) ==
    IF i \notin DOMAIN a THEN acc ELSE SumDoubles(a, i + 1, Dadd_rn(acc, a[i]))

\* the entropy stage on the arguments: H_out[c] + H_in[c]
EntropyStage ==
    LET outStart == [c \in Cids |-> SumFn(0 .. c - 1, outLinksCount)]
        inStart == [c \in Cids |-> SumFn(0 .. c - 1, inLinksCount)]
        totOut == [c \in Cids |-> TotalOutStake(c)]
        totIn == [c \in Cids |-> TotalInStake(c)]
        hOut == calculateNodeEntropy(cidsSize, stakes, outStart, outLinksCount,
                                     outLinksUsers, totOut, totIn)
        hIn == calculateNodeEntropy(cidsSize, stakes, inStart, inLinksCount,
                                    inLinksUsers, totOut, totIn)
    IN  [c \in Cids |-> Dadd_rn(hOut[c], hIn[c])]

\* ------------------------------------------------------------------------
\* Claims
\* ------------------------------------------------------------------------

\* C1: on return the caller's entropy array holds, for every node c, the value
\* of the entropy stage, H_out[c] + H_in[c], whatever it held on entry.
C1_EntropyPublished ==
    pc = "done" /\ ValidParams /\ (\A u \in Users : stakes[u] > 0) => \A c \in Cids : entropy[c] = EntropyStage[c]

LocalWeights ==
    [e \in 0 .. linksSize - 1 |->
        LET c == CHOOSE i \in Cids : e \in OutSlice(i)
        IN  ddiv_rn(stakes[outLinksUsers[e]], Oil(c))]

\* the sum over all outbound links (c, e) with outAuthor[e] = u of light[c] * w[e]
RECURSIVE KarmaOfUser(_, _, _)
KarmaOfUser(u, e, acc) ==
    IF e >= linksSize THEN acc
    ELSE KarmaOfUser(u, e + 1,
             IF outLinksUsers[e] = u
             THEN Dadd_rn(acc, Dmul_rn(light[CHOOSE i \in Cids : e \in OutSlice(i)],
                                       LocalWeights[e]))
             ELSE acc)

\* C3: on return karma[u] is the sum over the outbound links authored by u of
\* light[c] * w[e], for any contents of the karma buffer on entry.
C3_KarmaIsSum ==
    pc = "done" /\ ValidParams => \A u \in Users : karma[u] = KarmaOfUser(u, 0, Num(0))

\* C6: with dampingFactor outside (0, 1) or tolerance <= 0 the call is rejected
\* before any allocation and the rank loop is never entered.
C6_RejectedBeforeAllocation ==
    ~ValidParams => DOMAIN mem = {} /\ pc # "LOOP"

\* C7: when calculate_rank returns, every buffer it allocated has been freed.
C7_AllScratchFreed ==
    pc = "done" /\ ValidParams => DOMAIN mem = {}

\* the entropy of a slice with the terms of zero-stake authors left out
RECURSIVE GuardedEntropyLoop(_, _, _, _, _)
GuardedEntropyLoop(j, end, users, oil, acc) ==
    IF j >= end THEN acc
    ELSE LET weight == ddiv_rn(stakes[users[j]], oil)
         IN  GuardedEntropyLoop(j + 1, end, users, oil,
                 IF stakes[users[j]] = 0 THEN acc
                 ELSE Dsub(acc, Dmul_rn(weight, log2(weight))))

\* C9: a link whose author has stake 0 contributes exactly 0 to the entropy of
\* its node, so no NaN enters the entropy through such a link.
C9_ZeroStakeGuarded ==
    "d_entropy" \in DOMAIN mem /\ ValidParams =>
        \A c \in Cids : Oil(c) > 0 =>
            LET o == OutSlice(c)
                i == InSlice(c)
                first(sl) == IF sl = {} THEN 0 ELSE CHOOSE x \in sl : \A y \in sl : x <= y
            IN  mem["d_entropy"][c] =
                    Dadd_rn(GuardedEntropyLoop(first(o), first(o) + Cardinality(o),
                                               outLinksUsers, Oil(c), Num(0)),
                            GuardedEntropyLoop(first(i), first(i) + Cardinality(i),
                                               inLinksUsers, Oil(c), Num(0)))

Abs(x) == IF x < 0 THEN -x ELSE x

\* max over c of |R[c] - R'[c]|, for iterates without NaN
MaxAbsDiff(R, R2) ==
    LET d == { Abs(R[c].v - R2[c].v) : c \in DOMAIN R }
    IN  CHOOSE m \in d : \A x \in d : x <= m

\* C4 (state part): once an iteration has run, the current iterate is the
\* update of the previous one and change is the greatest difference between
\* the two; the loop is left after one iteration at least, with
\* change <= tolerance, and the rank copied back is the current iterate.
C4_State ==
    /\ (pc = "LOOP" /\ steps > 0) \/ pc = "STEP7" =>
          /\ \A c \in Cids : mem["d_compressedInLinksCount"][c] > 0 =>
                 mem[d_rank][c] =
                     Dadd_rn(Dmul_rn(RankSumLoop(
                                 mem["d_compressedInLinksStartIndex"][c],
                                 mem["d_compressedInLinksStartIndex"][c]
                                     + mem["d_compressedInLinksCount"][c],
                                 mem["d_compressedInLinks"], mem[d_prevRank], Num(0)),
                             dampingFactor),
                             defaultRankWithCorrection)
          /\ (\A c \in Cids : IsNum(mem[d_rank][c]) /\ IsNum(mem[d_prevRank][c])) =>
                 change = Num(MaxAbsDiff(mem[d_prevRank], mem[d_rank]))
    /\ pc = "STEP7" =>
          /\ steps >= 1
          /\ ~Dgt(change, tolerance)
          /\ IsNum(change) => change.v <= tolerance.v
          /\ rank = mem[d_rank]

\* C4 (step part): while change > tolerance the loop runs another iteration,
\* whose previous iterate is the iterate written last; otherwise it stops and
\* copies that iterate back.
C4_Step ==
    /\ pc = "LOOP" /\ Dgt(change, tolerance) =>
          pc' = "LOOP" /\ mem'[d_prevRank'] = mem[d_rank]
    /\ pc = "LOOP" /\ ~Dgt(change, tolerance) =>
          pc' = "STEP7" /\ rank' = mem[d_rank]

\* C4: the solver iterates while the greatest difference between the two most
\* recent iterates exceeds tolerance, stops at the first iteration where it
\* does not, and returns the iterate written by that last iteration.
C4_Solver == [](C4_State) /\ [][C4_Step]_vars

\* witness of C4: the loop has ended after two iterations or more, and the
\* last iterate differs from the one before
C4_Witness ==
    /\ pc = "STEP7"
    /\ steps >= 2
    /\ IsNum(change) /\ change.v > 0
    /\ mem[d_rank] # mem[d_prevRank]
    /\ rank = mem[d_rank]

\* C5: with 0 < dampingFactor < 1 and tolerance > 0 the loop ends and
\* calculate_rank returns.
C5_Terminates == (pc # "idle" /\ ValidParams) ~> (pc = "done")

\* witness of C5: a call with valid parameters has returned after two
\* iterations or more over a graph with links
C5_Witness ==
    /\ pc = "done"
    /\ ValidParams
    /\ steps >= 2
    /\ linksSize > 0

\* every node with outbound links has oil > 0
OilPositive == \A c \in Cids : outLinksCount[c] > 0 => Oil(c) > 0

\* the sum over the nodes with outbound links of
\* light[c] * totalOutStake[c] / oil[c]
AttributedLight ==
    SumDoubles([c \in Cids |->
                   IF outLinksCount[c] > 0
                   THEN Dmul_rn(light[c], ddiv_rn(TotalOutStake(c), Oil(c)))
                   ELSE Num(0)],
               0, Num(0))

\* rounding allowance of the karma sums, in units of 1 / Scale
KarmaEps == 2 * linksSize + 2 * cidsSize

\* equal up to eps units; NaN on both sides counts as equal
Close(a, b, eps) ==
    \/ IsNaN(a) /\ IsNaN(b)
    \/ IsNum(a) /\ IsNum(b) /\ Abs(a.v - b.v) <= eps

\* C8 (as claimed): with oil > 0 at every node with outbound links and the
\* karma buffer zero on entry, the karma stage leaves
\* sum_u karma[u] = sum_c light[c].
C8_KarmaConserved ==
    [][pc = "STEP8" /\ ValidParams /\ OilPositive
         /\ karma = Fill(stakesSize, Num(0)) =>
           Close(SumDoubles(karma', 0, Num(0)), SumDoubles(light', 0, Num(0)),
                 KarmaEps)]_vars

\* C8 (amended): under the same conditions the karma stage leaves
\* sum_u karma[u] = sum over the nodes c with outbound links of
\* light[c] * totalOutStake[c] / oil[c], up to rounding.
C8_KarmaAttributesOutShare ==
    [][pc = "STEP8" /\ ValidParams /\ OilPositive
         /\ karma = Fill(stakesSize, Num(0)) =>
           Close(SumDoubles(karma', 0, Num(0)), AttributedLight', KarmaEps)]_vars

\* witness of C8: the karma stage has run over a graph where some light is
\* attributed, but not all of it
C8_Witness ==
    /\ pc = "STEP9"
    /\ ValidParams /\ OilPositive
    /\ linksSize > 0
    /\ IsNum(SumDoubles(karma, 0, Num(0)))
    /\ SumDoubles(karma, 0, Num(0)).v > 0
    /\ Close(SumDoubles(karma, 0, Num(0)), AttributedLight, KarmaEps)
    /\ ~Close(SumDoubles(karma, 0, Num(0)), SumDoubles(light, 0, Num(0)), KarmaEps)

\* the distinct sources of the raw inbound slice of c
Sources(c) == { inLinksOuts[e] : e \in InSlice(c) }

\* the k-th distinct source of c (k from 0), in slice order
KthSource(c, k) ==
    CHOOSE x \in Sources(c) : Cardinality({ y \in Sources(c) : y < x }) = k

\* the stake behind the raw links s -> c
RunStake(s, c) ==
    LET run == { e \in InSlice(c) : inLinksOuts[e] = s }
    IN  SumFn(run, [e \in run |-> stakes[inLinksUsers[e]]])

\* C10: compCount[c] is the number of distinct sources of the raw inbound
\* slice of c, and the compressed array holds, from compStart[c] on, one entry
\* per distinct source s in slice order, with fromIndex = s and weight
\* sigma / totalOutStake[s]; nothing else is emitted.
C10_Compression ==
    pc \in {"STEP5", "STEP6", "LOOP", "STEP7"} =>
        /\ \A c \in Cids :
              /\ mem["d_compressedInLinksCount"][c] = Cardinality(Sources(c))
              /\ mem["d_compressedInLinksStartIndex"][c] =
                     SumFn(0 .. c - 1, [x \in Cids |-> Cardinality(Sources(x))])
              /\ \A k \in 0 .. Cardinality(Sources(c)) - 1 :
                     mem["d_compressedInLinks"][mem["d_compressedInLinksStartIndex"][c] + k]
                         = CompressedInLink(KthSource(c, k),
                               ddiv_rn(RunStake(KthSource(c, k), c),
                                       TotalOutStake(KthSource(c, k))))
        /\ DOMAIN mem["d_compressedInLinks"] =
               0 .. SumFn(Cids, [x \in Cids |-> Cardinality(Sources(x))]) - 1

\* witness of C10: two links 0 -> 1 by users with stakes 3 and 7 have been
\* folded into one entry with source 0 and weight 10 / 10
C10_Witness ==
    /\ pc = "STEP5"
    /\ cidsSize = 2 /\ linksSize = 2
    /\ stakesSize = 2 /\ stakes[0] = 3 /\ stakes[1] = 7
    /\ inLinksCount[1] = 2 /\ inLinksOuts[0] = 0 /\ inLinksOuts[1] = 0
    /\ inLinksUsers[0] # inLinksUsers[1]
    /\ mem["d_compressedInLinksCount"][1] = 1
    /\ mem["d_compressedInLinks"][0] = CompressedInLink(0, Num(Scale))

\* the compressed inbound slice of c
CompSlice(c) ==
    LET first == mem["d_compressedInLinksStartIndex"][c]
    IN  first .. first + mem["d_compressedInLinksCount"][c] - 1

\* sum over the compressed slice of c of weight(k) * totalOutStake[source(k)]
CompressedStake(c) ==
    SumDoubles([k \in 0 .. Cardinality(CompSlice(c)) - 1 |->
                   LET l == mem["d_compressedInLinks"]
                                [mem["d_compressedInLinksStartIndex"][c] + k]
                   IN  Dmul_rn(l.weight, ull2double_rn(TotalOutStake(l.fromIndex)))],
               0, Num(0))

\* rounding allowance of CompressedStake(c), in units of 1 / Scale: half a
\* unit of the quotient times the divisor, for each entry
CompressedStakeEps(c) ==
    SumFn(Sources(c), [x \in Sources(c) |-> TotalOutStake(x)])

\* the compressed links exist
Compressed == pc \in {"STEP5", "STEP6", "LOOP", "STEP7"}

\* C11: after the emit pass, for every node c the sum over its compressed
\* slice of weight(k) * totalOutStake[source(k)] is the sum of the stakes of
\* the authors of its raw inbound slice, up to the rounding of the division.
C11_CompressionFaithful ==
    Compressed /\ ValidParams =>
        \A c \in Cids :
            LET sum == CompressedStake(c)
            IN  /\ IsNum(sum)
                /\ Abs(sum.v - TotalInStake(c) * Scale) <= CompressedStakeEps(c)

\* start is the exclusive prefix sum of count[0 .. n-1] and total its sum
PrefixSum(n, count, start, total) ==
    /\ DOMAIN start = 0 .. n - 1
    /\ n > 0 => start[0] = 0
    /\ \A c \in 1 .. n - 1 : start[c] = start[c - 1] + count[c - 1]
    /\ total = SumFn(0 .. n - 1, count)

\* getLinksStartIndex on the first n counts yields their prefix sum
PrefixSumOf(n, count) ==
    LET r == getLinksStartIndex(n, count)
    IN  PrefixSum(n, count, r.start, r.total)

\* C12: getLinksStartIndex yields the exclusive prefix sum of the counts and
\* returns their total (0 for no counts), for the in, out and compressed
\* counts alike; the start indices calculate_rank keeps are these prefix
\* sums, and the count arrays are left as they were.
C12_PrefixSum ==
    /\ pc # "idle" =>
          \A n \in 0 .. cidsSize :
              PrefixSumOf(n, inLinksCount) /\ PrefixSumOf(n, outLinksCount)
    /\ "inLinksStartIndex" \in DOMAIN mem =>
          /\ PrefixSum(cidsSize, inLinksCount, mem["inLinksStartIndex"], linksSize)
          /\ PrefixSum(cidsSize, outLinksCount, mem["outLinksStartIndex"], linksSize)
    /\ "d_compressedInLinksStartIndex" \in DOMAIN mem =>
          /\ \A n \in 0 .. cidsSize : PrefixSumOf(n, mem["compressedInLinksCount"])
          /\ PrefixSum(cidsSize, mem["compressedInLinksCount"],
                       mem["d_compressedInLinksStartIndex"], compressedInLinksSize)
          /\ mem["compressedInLinksCount"] = mem["d_compressedInLinksCount"]

\* witness of C12: start indices of a graph whose second node starts after
\* the links of the first, where compression has folded links
C12_Witness ==
    /\ pc = "STEP4"
    /\ cidsSize >= 2
    /\ mem["inLinksStartIndex"][1] = inLinksCount[0] /\ inLinksCount[0] > 1
    /\ mem["outLinksStartIndex"][1] = outLinksCount[0] /\ outLinksCount[0] > 0
    /\ mem["d_compressedInLinksStartIndex"][1] = 1
    /\ compressedInLinksSize < linksSize

\* scenario S1: one user of stake 1, one node, no links, dampingFactor 0.5
\* and a tolerance > 0
S1 ==
    /\ stakesSize = 1 /\ stakes[0] = 1
    /\ cidsSize = 1 /\ linksSize = 0
    /\ dampingFactor = Num(Scale \div 2)
    /\ ValidParams

C13_S1Result ==
    pc = "done" /\ S1 => rank[0] = Num(Scale \div 2) /\ light[0] = Num(0)

\* C13 (amended), buffers: in S1 every step of the call leaves zeroed entropy
\* and karma buffers zero
C13_S1Zero ==
    pc # "idle" /\ S1 /\ entropy[0] = Num(0) /\ karma[0] = Num(0) =>
        entropy'[0] = Num(0) /\ karma'[0] = Num(0)

S2 ==
    /\ stakesSize = 1 /\ stakes[0] = 10
    /\ cidsSize = 2 /\ linksSize = 2
    /\ outLinksCount = [c \in 0 .. 1 |-> 1]
    /\ outLinksIns = [e \in 0 .. 1 |-> 1 - e]
    /\ dampingFactor = Num(RoundDiv(85 * Scale, 100))
    /\ ValidParams

\* C14 (as claimed): S2 returns rank = [0.5, 0.5] exactly and the entropy
\* computed for both nodes is 0.
C14_S2Exact ==
    S2 =>
        /\ "d_entropy" \in DOMAIN mem =>
               \A c \in Cids : mem["d_entropy"][c] = Num(0)
        /\ pc = "done" => \A c \in Cids : rank[c] = Num(Scale \div 2)

\* C14 (amended): in S2 the entropy computed for both nodes is 1.0 (each node
\* has oil = 10 + 10, so each of its two links has p = 0.5 and contributes
\* 0.5), and the returned ranks are equal and within
\* tolerance * d / (1 - d), plus rounding, of 0.5.
C14_S2 ==
    S2 =>
        /\ "d_entropy" \in DOMAIN mem =>
               \A c \in Cids : mem["d_entropy"][c] = Num(Scale)
        /\ pc = "done" =>
               /\ rank[0] = rank[1]
               /\ IsNum(rank[0])
               /\ Abs(Scale \div 2 - rank[0].v) * (Scale - dampingFactor.v)
                      <= tolerance.v * dampingFactor.v + Scale

\* witness of C14: S2 has returned equal ranks short of 0.5, and light equal
\* to rank
C14_Witness ==
    /\ pc = "done" /\ S2
    /\ steps >= 2
    /\ rank[0] = rank[1] /\ rank[0].v < Scale \div 2 /\ rank[0].v > Scale \div 4
    /\ light = rank

\* ------------------------------------------------------------------------
\* C15: concurrency
\* ------------------------------------------------------------------------

\* largest number of blocks, and of threads per block, of the grids examined
MaxGrid == 3

\* the launch configurations examined: small grids, and the grid of
\* calculate_rank
Grids ==
    ((1 .. MaxGrid) \X (1 .. MaxGrid))
        \cup { <<CUDA_BLOCKS_NUMBER(cidsSize), CUDA_THREAD_BLOCK_SIZE>> }

\* the elements written on behalf of each cid, one entry per kernel
CidWrites ==
    [i \in Cids |->
        [ node   |-> NodeWrites({i}),
          rank   |-> RankWrites({i}, mem["d_compressedInLinksCount"]),
          weight |-> LocalWeightWrites({i}, mem["d_outLinksStartIndex"],
                                       mem["d_outLinksCount"]),
          emit   |-> EmitWrites({i}, mem["d_inLinksStartIndex"], mem["d_inLinksCount"],
                                mem["d_cidsTotalOutStakes"], mem["d_inLinksOuts"],
                                inLinksUsers, mem["d_stakes"],
                                mem["d_compressedInLinksStartIndex"],
                                compressedInLinksSize) ]]

\* the elements thread w of grid g writes, one entry per kernel; cw is
\* CidWrites
WritesOf(w, g, cw) ==
    LET cids == GridStride(w, Stride(g[1], g[2]), cidsSize)
    IN  [ node   |-> UNION { cw[i].node : i \in cids },
          rank   |-> UNION { cw[i].rank : i \in cids },
          weight |-> UNION { cw[i].weight : i \in cids },
          emit   |-> UNION { cw[i].emit : i \in cids },
          guard  |-> Guarded(w, cidsSize) ]

\* every element is written by at most one thread of the grid g
DisjointWrites(g, cw) ==
    \E f \in { [w \in Workers(g[1], g[2]) |-> WritesOf(w, g, cw)] } :
        \A w1 \in DOMAIN f : \A kernel \in DOMAIN f[w1] : \A k \in f[w1][kernel] :
            \A w2 \in DOMAIN f : k \in f[w2][kernel] => w2 = w1

\* C15: for every grid, each output element of a node-parallel kernel is
\* written by at most one thread; a rank iteration reads one rank buffer and
\* writes the other; calculateKarma is launched with a single thread.
C15_Concurrency ==
    /\ pc = "STEP4" => \E cw \in {CidWrites} : \A g \in Grids : DisjointWrites(g, cw)
    /\ pc = "LOOP" => swap(d_rank, d_prevRank)[1] # swap(d_rank, d_prevRank)[2]
    /\ Cardinality(Workers(KarmaBlocks, KarmaBlockSize)) = 1

\* one thread visits two cids; in a grid of two threads both threads write
\* compressed links and local weights; calculateKarma has elements to write
C15_Witness ==
    /\ pc = "STEP4"
    /\ Cardinality(GridStride(0, Stride(1, 1), cidsSize)) >= 2
    /\ \A w \in Workers(1, 2) :
           /\ WritesOf(w, <<1, 2>>, CidWrites).emit # {}
           /\ WritesOf(w, <<1, 2>>, CidWrites).weight # {}
    /\ KarmaWrites(cidsSize, mem["d_outLinksStartIndex"], mem["d_outLinksCount"],
                   mem["d_outLinksUsers"]) # {}

\* ------------------------------------------------------------------------
\* C16: weights of compressed links
\* ------------------------------------------------------------------------

\* C16: every emitted CompressedInLink has a weight in [0, 1], and the total
\* outbound stake of its source, the denominator of the weight, is positive.
C16_WeightInUnitInterval ==
    Compressed /\ ValidParams =>
        \A c \in Cids : \A k \in CompSlice(c) :
            LET l == mem["d_compressedInLinks"][k]
            IN  /\ TotalOutStake(l.fromIndex) > 0
                /\ IsNum(l.weight)
                /\ 0 <= l.weight.v
                /\ l.weight.v <= Scale

\* ------------------------------------------------------------------------
\* C17: the write index of the emit pass
\* ------------------------------------------------------------------------

\* C17: the k-th compressed entry of a node is written at index
\* compStart + k of the compressed array, for every 64-bit value of compStart.
C17_WriteIndexExact ==
    emitted > 0 => emitAt = AddU64(emitStart, emitted - 1)

\* ------------------------------------------------------------------------
\* C18: array accesses
\* ------------------------------------------------------------------------

\* C18: every access to an engine-allocated array is at an index within its
\* allocated length, and every buffer a stage accesses is still allocated.
C18_AccessesInRange ==
    /\ outOfRange = {}
    /\ Accessed(pc) \subseteq DOMAIN mem

====
